---- MODULE Spec2Model ----
(***************************************************************************)
(* nix-bundler: bundle_nix_files (src/src/lib.rs) and its caller main      *)
(* (src/src/main.rs).  Texts and paths are strings, read character by      *)
(* character; the recursive functions process_nix_file and                 *)
(* inline_file_recursive run on an explicit call stack, one step per       *)
(* statement group.                                                        *)
(***************************************************************************)
EXTENDS Integers, Sequences, FiniteSets, TLC

(***************************************************************************)
(* Strings                                                                 *)
(***************************************************************************)

\* F applied to the value of v, v evaluated once, before F.
Let(v, F(_)) == CHOOSE r \in {F(x) : x \in {v}} : TRUE

\* The character of s at index i (1-based), "" outside the string.
At(s, i) == IF i >= 1 /\ i <= Len(s) THEN SubSeq(s, i, i) ELSE ""

\* The regex class \s, over the characters the modelled texts use.
WhiteSpace == {" ", "\t", "\n", "\r"}

\* s from index i to its end.
From(s, i) == IF i > Len(s) THEN "" ELSE SubSeq(s, i, Len(s))

\* Whether t occurs in s starting at index i.
StartsAt(s, t, i) == i >= 1 /\ i + Len(t) - 1 <= Len(s) /\ SubSeq(s, i, i + Len(t) - 1) = t

\* The least index >= i where character c occurs in s, 0 if none.
RECURSIVE IndexOf(_, _, _)
IndexOf(s, c, i) ==
    IF i > Len(s) THEN 0
    ELSE IF At(s, i) = c THEN i
    ELSE IndexOf(s, c, i + 1)

\* The least index >= i of s whose character is not in set cs, Len(s)+1 if none.
RECURSIVE SkipWhile(_, _, _)
SkipWhile(s, cs, i) ==
    IF i > Len(s) THEN i
    ELSE IF At(s, i) \in cs THEN SkipWhile(s, cs, i + 1)
    ELSE i

\* The least index >= i of s whose character is in set cs, Len(s)+1 if none.
RECURSIVE SkipUntil(_, _, _)
SkipUntil(s, cs, i) ==
    IF i > Len(s) THEN i
    ELSE IF At(s, i) \in cs THEN i
    ELSE SkipUntil(s, cs, i + 1)

\* str::replace(from, to): every non-overlapping occurrence of from in s,
\* found left to right in one pass, becomes to.  from is never empty here:
\* it is a match of import_regex.
RECURSIVE StrReplaceFrom(_, _, _, _)
StrReplaceFrom(s, from, to, i) ==
    IF i > Len(s) THEN ""
    ELSE IF StartsAt(s, from, i)
         THEN to \o StrReplaceFrom(s, from, to, i + Len(from))
    ELSE At(s, i) \o StrReplaceFrom(s, from, to, i + 1)

StrReplace(s, from, to) == StrReplaceFrom(s, from, to, 1)

\* str::lines(): split at "\n", a final line ending is optional, and a "\r"
\* right before the "\n" belongs to the line ending.
StripCr(l) ==
    IF Len(l) > 0 /\ At(l, Len(l)) = "\r" THEN SubSeq(l, 1, Len(l) - 1) ELSE l

RECURSIVE LinesFrom(_, _)
LinesFrom(s, i) ==
    IF i > Len(s) THEN << >>
    ELSE Let(IndexOf(s, "\n", i), LAMBDA n :
             IF n = 0 THEN << From(s, i) >>
             ELSE << StripCr(SubSeq(s, i, n - 1)) >> \o LinesFrom(s, n + 1))

Lines(s) == LinesFrom(s, 1)

(***************************************************************************)
(* Paths                                                                   *)
(***************************************************************************)

\* Path::is_absolute
IsAbsolute(p) == At(p, 1) = "/"

\* The "/"-separated elements of p, empty ones included.
RECURSIVE SplitFrom(_, _)
SplitFrom(p, i) ==
    IF i > Len(p) + 1 THEN << >>
    ELSE Let(IndexOf(p, "/", i), LAMBDA n :
             IF n = 0 THEN << From(p, i) >>
             ELSE << SubSeq(p, i, n - 1) >> \o SplitFrom(p, n + 1))

Split(p) == SplitFrom(p, 1)

RECURSIVE JoinElems(_)
JoinElems(es) ==
    IF Len(es) = 0 THEN ""
    ELSE IF Len(es) = 1 THEN es[1]
    ELSE es[1] \o "/" \o JoinElems(Tail(es))

\* path_clean::clean, the lexical cleaning of Go's path.Clean: empty and "."
\* elements go, ".." removes the element before it, ".." at the root goes,
\* ".." at the start of a relative path stays; the empty result is ".".
RECURSIVE CleanElems(_, _, _)
CleanElems(es, rooted, out) ==
    IF Len(es) = 0 THEN out
    ELSE LET e == Head(es)
             rest == Tail(es)
         IN  IF e = "" \/ e = "." THEN CleanElems(rest, rooted, out)
             ELSE IF e = ".."
                  THEN IF Len(out) > 0 /\ out[Len(out)] # ".."
                       THEN CleanElems(rest, rooted, SubSeq(out, 1, Len(out) - 1))
                       ELSE IF rooted THEN CleanElems(rest, rooted, out)
                       ELSE CleanElems(rest, rooted, Append(out, e))
             ELSE CleanElems(rest, rooted, Append(out, e))

\* A slip: ".." elements are kept as they are.
CleanNoDotDot(p) ==
    LET keep == SelectSeq(Split(p), LAMBDA e : e # "" /\ e # ".")
        out == JoinElems(keep)
    IN  IF IsAbsolute(p) THEN "/" \o out
        ELSE IF out = "" THEN "."
        ELSE out

Clean(p) ==
    Let(Split(p), LAMBDA es :
        LET rooted == IsAbsolute(p)
            out == JoinElems(CleanElems(es, rooted, << >>))
        IN  IF rooted THEN "/" \o out
            ELSE IF out = "" THEN "."
            ELSE out)

\* Path::join: an absolute path replaces the base, any other is appended
\* after a separator.
PathJoin(base, p) ==
    IF IsAbsolute(p) THEN p
    ELSE IF Len(base) > 0 /\ At(base, Len(base)) # "/" THEN base \o "/" \o p
    ELSE base \o p

\* Path::parent of a cleaned path: the path without its last element, None
\* for the root and for the empty path.
NoParent == [some |-> FALSE, path |-> ""]

RECURSIVE LastSlash(_, _)
LastSlash(p, i) ==
    IF i < 1 THEN 0
    ELSE IF At(p, i) = "/" THEN i
    ELSE LastSlash(p, i - 1)

Parent(p) ==
    LET n == LastSlash(p, Len(p))
    IN  IF p = "/" \/ p = "" THEN NoParent
        ELSE IF n = 0 THEN [some |-> TRUE, path |-> ""]
        ELSE IF n = 1 THEN [some |-> TRUE, path |-> "/"]
        ELSE [some |-> TRUE, path |-> SubSeq(p, 1, n - 1)]

(***************************************************************************)
(* Import Scanner: parse_imports                                           *)
(***************************************************************************)

NoMatch == [found |-> FALSE, path |-> "", end |-> 0]

\* A quoted alternative of import_regex, "([^"]+)" or '([^']+)', at index q
\* of line: the quote, one or more other characters, the same quote.
QuotedAt(line, quote, q) ==
    LET r == IndexOf(line, quote, q + 1)
    IN  IF At(line, q) = quote /\ r > q + 1
        THEN [found |-> TRUE, path |-> SubSeq(line, q + 1, r - 1), end |-> r]
        ELSE NoMatch

\* The last alternative, ([^\s;]+), at index q: the longest run of characters
\* that are neither white space nor ";".
BareAt(line, q) ==
    LET e == SkipUntil(line, WhiteSpace \cup {";"}, q)
    IN  IF e > q
        THEN [found |-> TRUE, path |-> SubSeq(line, q, e - 1), end |-> e - 1]
        ELSE NoMatch

\* import_regex matched at index p of line: "import", \s+, then the first
\* alternative that matches, in the order the regex lists them.
MatchAt(line, p) ==
    Let(SkipWhile(line, WhiteSpace, p + 6), LAMBDA q :
        IF ~StartsAt(line, "import", p) \/ q = p + 6 THEN NoMatch
        ELSE IF QuotedAt(line, "\"", q).found THEN QuotedAt(line, "\"", q)
        ELSE IF QuotedAt(line, "'", q).found THEN QuotedAt(line, "'", q)
        ELSE BareAt(line, q))

\* captures_iter(line): the non-overlapping matches, leftmost first, each
\* made into a NixImport.
RECURSIVE LineImports(_, _, _)
LineImports(line, line_idx, p) ==
    IF p > Len(line) THEN << >>
    ELSE Let(MatchAt(line, p), LAMBDA m :
             IF m.found
             THEN << [path |-> m.path,
                      position |-> << line_idx + 1, p - 1 >>,
                      full_import |-> SubSeq(line, p, m.end)] >>
                  \o LineImports(line, line_idx, m.end + 1)
             ELSE LineImports(line, line_idx, p + 1))

RECURSIVE ImportsOfLines(_, _)
ImportsOfLines(ls, line_idx) ==
    IF line_idx >= Len(ls) THEN << >>
    ELSE Let(ls[line_idx + 1], LAMBDA line : LineImports(line, line_idx, 1))
         \o ImportsOfLines(ls, line_idx + 1)

parse_imports(content) == Let(Lines(content), LAMBDA ls : ImportsOfLines(ls, 0))

\* std::env::current_dir()
Cwd == "/r"

\* resolve_import_path: an absolute import path is returned as written; a
\* relative one is joined to the directory of current_file and cleaned.
NoParentError == [ok |-> FALSE, path |-> ""]

\* A slip: the relative path is joined to the working directory, not to the
\* directory of the importing file.
resolve_against_cwd(import_path, current_file) ==
    IF IsAbsolute(import_path) THEN [ok |-> TRUE, path |-> import_path]
    ELSE [ok |-> TRUE, path |-> Clean(PathJoin(Cwd, import_path))]

resolve_import_path(import_path, current_file) ==
    IF IsAbsolute(import_path) THEN [ok |-> TRUE, path |-> import_path]
    ELSE IF ~Parent(current_file).some THEN NoParentError
    ELSE [ok |-> TRUE, path |-> Clean(PathJoin(Parent(current_file).path, import_path))]

(***************************************************************************)
(* The environment: working directory and file system                      *)
(***************************************************************************)

\* What the file system holds at a path: a file with its text, or a directory.
File(text) == [is_dir |-> FALSE, text |-> text]
Dir == [is_dir |-> TRUE, text |-> ""]

\* The directories every modelled tree has.
BaseDirs == [p \in {"/", "/r", "/r/d"} |-> Dir]

\* The absolute, cleaned form a path is given before it is used as a key.
CleanAbsolute(file_path) ==
    Clean(IF IsAbsolute(file_path) THEN file_path ELSE PathJoin(Cwd, file_path))

VARIABLES
    fs,               \* the file tree: path |-> File(text) or Dir
    entry,            \* the --entry argument, as written
    pc,               \* where main is
    stack,            \* the frames of process_nix_file / inline_file_recursive
    ret,              \* the value the last call returned
    processed_files,  \* HashSet<PathBuf> of bundle_nix_files
    file_contents,    \* HashMap<PathBuf, NixFile> of bundle_nix_files
    inlined_files,    \* HashSet<PathBuf> of inline_imports
    reads,            \* path |-> how often fs::read_to_string was called on it
    expanded,         \* path |-> the texts inline_file_recursive returned for it
    output,           \* the output file: NoFile, or Written(text)
    exit              \* what main returned

vars == << fs, entry, pc, stack, ret, processed_files, file_contents,
           inlined_files, reads, expanded, output, exit >>

NoFile == [written |-> FALSE, text |-> ""]
Written(text) == [written |-> TRUE, text |-> text]

\* Result values: Ok(text) and the errors, each naming its path; NoResult
\* where nothing has returned yet.
Ok(v) == [ok |-> TRUE, val |-> v, kind |-> "", path |-> ""]
NoResult == [ok |-> FALSE, val |-> "", kind |-> "none", path |-> ""]
Err(kind, path) == [ok |-> FALSE, val |-> "", kind |-> kind, path |-> path]

\* Path::exists of a cleaned path.
Exists(p) == p \in DOMAIN fs

\* Path::exists as the operating system resolves a path that may hold "."
\* and "..": every element passed through must be an existing directory.
RECURSIVE WalkExists(_, _)
WalkExists(es, at) ==
    IF Len(es) = 0 THEN Exists(at)
    ELSE IF ~Exists(at) \/ ~fs[at].is_dir THEN FALSE
    ELSE LET e == Head(es)
         IN  IF e = "" \/ e = "." THEN WalkExists(Tail(es), at)
             ELSE IF e = ".."
                  THEN WalkExists(Tail(es), IF at = "/" THEN "/" ELSE Parent(at).path)
             ELSE WalkExists(Tail(es), PathJoin(at, e))

OsExists(p) ==
    IF IsAbsolute(p) THEN WalkExists(Split(p), "/") ELSE WalkExists(Split(p), Cwd)

\* The recursion limit of the modelled machine's stack.
MaxDepth == 8

Frame(fn, file_path) ==
    [fn |-> fn, pc |-> "enter", file_path |-> file_path, clean_path |-> "",
     imports |-> << >>, i |-> 0, result |-> ""]

Top == stack[Len(stack)]
Callers == SubSeq(stack, 1, Len(stack) - 1)
AtStep(fn, at) == Len(stack) > 0 /\ Top.fn = fn /\ Top.pc = at

(***************************************************************************)
(* main and bundle_nix_files                                               *)
(***************************************************************************)

\* main: the entry must exist, else main returns the error and nothing ran.
MainEntryMissing ==
    /\ pc = "main"
    /\ ~OsExists(entry)
    /\ pc' = "done"
    /\ exit' = Err("entry_not_exist", entry)
    /\ UNCHANGED << fs, entry, stack, ret, processed_files, file_contents,
                    inlined_files, reads, expanded, output >>

\* main calls bundle_nix_files, which creates the two collections and calls
\* process_nix_file on the entry point.
MainBundle ==
    /\ pc = "main"
    /\ OsExists(entry)
    /\ pc' = "build"
    /\ processed_files' = {}
    /\ file_contents' = << >>
    /\ stack' = << Frame("process", entry) >>
    /\ UNCHANGED << fs, entry, ret, inlined_files, reads, expanded, output, exit >>

\* process_nix_file returned Err: the ? of bundle_nix_files and the ? of main
\* hand the error on.
BuildFailed ==
    /\ pc = "build"
    /\ stack = << >>
    /\ ~ret.ok
    /\ pc' = "done"
    /\ exit' = ret
    /\ UNCHANGED << fs, entry, stack, ret, processed_files, file_contents,
                    inlined_files, reads, expanded, output >>

\* process_nix_file returned Ok: the entry point's key is looked up, and
\* inline_imports starts inline_file_recursive with an empty set.
BuildDone ==
    /\ pc = "build"
    /\ stack = << >>
    /\ ret.ok
    /\ \E clean_entry_path \in {CleanAbsolute(entry)} :
           IF clean_entry_path \notin DOMAIN file_contents
           THEN /\ pc' = "done"
                /\ exit' = Err("entry_content_missing", clean_entry_path)
                /\ UNCHANGED << stack, inlined_files >>
           ELSE /\ pc' = "inline"
                /\ inlined_files' = {}
                /\ stack' = << Frame("inline", clean_entry_path) >>
                /\ UNCHANGED exit
    /\ UNCHANGED << fs, entry, ret, processed_files, file_contents, reads,
                    expanded, output >>

\* inline_imports returned: bundle_nix_files hands the text, or the error, to
\* main, whose ? returns the error.
InlineDone ==
    /\ pc = "inline"
    /\ stack = << >>
    /\ IF ret.ok
       THEN /\ pc' = "write"
            /\ UNCHANGED exit
       ELSE /\ pc' = "done"
            /\ exit' = ret
    /\ UNCHANGED << fs, entry, stack, ret, processed_files, file_contents,
                    inlined_files, reads, expanded, output >>

\* fs::write(output, bundled_content)
MainWrite ==
    /\ pc = "write"
    /\ output' = Written(ret.val)
    /\ pc' = "validate"
    /\ UNCHANGED << fs, entry, stack, ret, processed_files, file_contents,
                    inlined_files, reads, expanded, exit >>

\* validate_with_nix_instantiate: the external interpreter accepts the
\* output file or rejects it.
ValidateOk ==
    /\ pc = "validate"
    /\ pc' = "done"
    /\ exit' = Ok("")
    /\ UNCHANGED << fs, entry, stack, ret, processed_files, file_contents,
                    inlined_files, reads, expanded, output >>

ValidateFailed ==
    /\ pc = "validate"
    /\ pc' = "done"
    /\ exit' = Err("validation_failed", "")
    /\ UNCHANGED << fs, entry, stack, ret, processed_files, file_contents,
                    inlined_files, reads, expanded, output >>

(***************************************************************************)
(* Dependency Graph Builder: process_nix_file                              *)
(***************************************************************************)

\* A call returns v: its frame goes, the caller finds v in ret.
Return(v) ==
    /\ stack' = Callers
    /\ ret' = v

\* A slip: no file counts as processed.
NeverProcessed(clean_path) == FALSE

\* The test that skips a file already processed.
AlreadyProcessed(clean_path) == clean_path \in processed_files

\* The file is already processed: Ok at once.
ProcessSkip ==
    /\ AtStep("process", "enter")
    /\ AlreadyProcessed(CleanAbsolute(Top.file_path))
    /\ Return(Ok(""))
    /\ UNCHANGED << fs, entry, pc, processed_files, file_contents,
                    inlined_files, reads, expanded, output, exit >>

\* No file at the cleaned path.
ProcessNotFound ==
    /\ AtStep("process", "enter")
    /\ \E clean_path \in {CleanAbsolute(Top.file_path)} :
           /\ ~AlreadyProcessed(clean_path)
           /\ ~Exists(clean_path)
           /\ Return(Err("not_exist", clean_path))
    /\ UNCHANGED << fs, entry, pc, processed_files, file_contents,
                    inlined_files, reads, expanded, output, exit >>

\* fs::read_to_string fails: the path is a directory.
ProcessReadFailed ==
    /\ AtStep("process", "enter")
    /\ \E clean_path \in {CleanAbsolute(Top.file_path)} :
           /\ ~AlreadyProcessed(clean_path)
           /\ Exists(clean_path)
           /\ fs[clean_path].is_dir
           /\ reads' = [reads EXCEPT ![clean_path] = @ + 1]
           /\ Return(Err("read_failed", clean_path))
    /\ UNCHANGED << fs, entry, pc, processed_files, file_contents,
                    inlined_files, expanded, output, exit >>

\* The NixFile stored for clean_path.
NixFile(clean_path, content, imports) ==
    [path |-> clean_path, content |-> content, imports |-> imports]

\* A slip: the insertion is left out.
NoInsert(map, key, value) == map

\* A slip: the insertion gives every key the new value.
Overwriting(map, key, value) == [k \in DOMAIN map \cup {key} |-> value]

\* HashMap::insert
Insert(map, key, value) ==
    [k \in DOMAIN map \cup {key} |-> IF k = key THEN value ELSE map[k]]

\* A slip: the file is not marked.
MarkSkipped(clean_path) == processed_files

\* processed_files once clean_path is marked as processed.
MarkProcessed(clean_path) == processed_files \cup {clean_path}

\* The file is read and scanned, stored in file_contents and marked as
\* processed; the loop over its imports starts.
ProcessRecord ==
    /\ AtStep("process", "enter")
    /\ \E clean_path \in {CleanAbsolute(Top.file_path)} :
           /\ ~AlreadyProcessed(clean_path)
           /\ Exists(clean_path)
           /\ ~fs[clean_path].is_dir
           /\ reads' = [reads EXCEPT ![clean_path] = @ + 1]
           /\ \E content \in {fs[clean_path].text} :
              \E imports \in {parse_imports(content)} :
                  /\ file_contents' =
                         Insert(file_contents, clean_path,
                                NixFile(clean_path, content, imports))
                  /\ processed_files' = MarkProcessed(clean_path)
                  /\ stack' = Append(Callers,
                         [Top EXCEPT !.pc = "loop", !.clean_path = clean_path,
                                     !.imports = imports, !.i = 1])
    /\ UNCHANGED << fs, entry, pc, ret, inlined_files, expanded, output, exit >>

\* A slip: the loop stops before the last import.
MoreImportsButLast(i, imports) == i < Len(imports)

\* The loop over the imports, in their order: whether the i-th is still to do.
MoreImports(i, imports) == i <= Len(imports)

\* The loop is over: Ok.
ProcessFinish ==
    /\ AtStep("process", "loop")
    /\ ~MoreImports(Top.i, Top.imports)
    /\ Return(Ok(""))
    /\ UNCHANGED << fs, entry, pc, processed_files, file_contents,
                    inlined_files, reads, expanded, output, exit >>

\* The next import is resolved and process_nix_file is called on it.
ProcessRecurse ==
    /\ AtStep("process", "loop")
    /\ MoreImports(Top.i, Top.imports)
    /\ Len(stack) < MaxDepth
    /\ \E import_path \in {resolve_import_path(Top.imports[Top.i].path, Top.clean_path)} :
           IF import_path.ok
           THEN /\ stack' = Append(Append(Callers, [Top EXCEPT !.pc = "called"]),
                                   Frame("process", import_path.path))
                /\ UNCHANGED ret
           ELSE Return(Err("no_parent", Top.clean_path))
    /\ UNCHANGED << fs, entry, pc, processed_files, file_contents,
                    inlined_files, reads, expanded, output, exit >>

\* The recursive call returned Ok: on to the next import.
ProcessNext ==
    /\ AtStep("process", "called")
    /\ ret.ok
    /\ stack' = Append(Callers, [Top EXCEPT !.pc = "loop", !.i = @ + 1])
    /\ UNCHANGED << fs, entry, pc, ret, processed_files, file_contents,
                    inlined_files, reads, expanded, output, exit >>

\* A slip: the error of the recursive call is dropped.
Swallowed(r) == Ok("")

\* What the ? after the recursive call returns from an Err.
Propagated(r) == r

\* The recursive call returned Err: the ? hands it on.
ProcessPropagate ==
    /\ AtStep("process", "called")
    /\ ~ret.ok
    /\ Return(Propagated(ret))
    /\ UNCHANGED << fs, entry, pc, processed_files, file_contents,
                    inlined_files, reads, expanded, output, exit >>

(***************************************************************************)
(* Inlining Engine: inline_file_recursive                                  *)
(***************************************************************************)

\* A slip: the path is made absolute but not cleaned.
UncleanedKey(file_path) ==
    IF IsAbsolute(file_path) THEN file_path ELSE PathJoin(Cwd, file_path)

\* The key inline_file_recursive looks file_path up with: the path made
\* absolute and cleaned, as in process_nix_file.
InlineKey(file_path) == CleanAbsolute(file_path)

\* The text v is returned for clean_path.
ReturnText(clean_path, v) ==
    /\ Return(Ok(v))
    /\ expanded' = [expanded EXCEPT ![clean_path] = @ \cup {v}]

\* A slip: the set of processed files is taken for the set of files being
\* expanded.
ProcessedBefore(clean_path) == clean_path \in processed_files

\* A slip: no file counts as being expanded.
NeverOnActivePath(clean_path) == FALSE

\* The test that breaks a cycle.
OnActivePath(clean_path) == clean_path \in inlined_files

\* A slip: the mark stays.
KeepMarked(clean_path) == inlined_files

\* A slip: every mark goes.
UnmarkAll(clean_path) == {}

\* The set once the expansion of clean_path is over.
Unmark(clean_path) == inlined_files \ {clean_path}

\* The replacement of one import: every occurrence of its full_import in
\* result becomes the inlined text.
ReplaceImport(result, import, inlined_content) ==
    StrReplace(result, import.full_import, inlined_content)

\* The order in which the imports are taken: the last one first.
FirstTaken(imports) == Len(imports)
NextTaken(i) == i - 1
AllTaken(i) == i < 1

\* The file is being expanded further up: the empty string.
InlineCycle ==
    /\ AtStep("inline", "enter")
    /\ \E clean_path \in {InlineKey(Top.file_path)} :
           /\ clean_path \in DOMAIN file_contents
           /\ OnActivePath(clean_path)
           /\ ReturnText(clean_path, "")
    /\ UNCHANGED << fs, entry, pc, processed_files, file_contents,
                    inlined_files, reads, output, exit >>

\* The NixFile is looked up, an error if there is none; the file is marked
\* and result starts as its content.
InlineBegin ==
    /\ AtStep("inline", "enter")
    /\ \E clean_path \in {InlineKey(Top.file_path)} :
           IF clean_path \notin DOMAIN file_contents
           THEN /\ Return(Err("no_file_info", clean_path))
                /\ UNCHANGED inlined_files
           ELSE /\ ~OnActivePath(clean_path)
                /\ inlined_files' = inlined_files \cup {clean_path}
                /\ LET nix_file == file_contents[clean_path]
                   IN  stack' = Append(Callers,
                           [Top EXCEPT !.pc = "loop", !.clean_path = clean_path,
                                       !.imports = nix_file.imports,
                                       !.i = FirstTaken(nix_file.imports),
                                       !.result = nix_file.content])
                /\ UNCHANGED ret
    /\ UNCHANGED << fs, entry, pc, processed_files, file_contents,
                    reads, expanded, output, exit >>

\* Every import is replaced: the mark goes, result is returned.
InlineFinish ==
    /\ AtStep("inline", "loop")
    /\ AllTaken(Top.i)
    /\ inlined_files' = Unmark(Top.clean_path)
    /\ ReturnText(Top.clean_path, Top.result)
    /\ UNCHANGED << fs, entry, pc, processed_files, file_contents,
                    reads, output, exit >>

\* The next import is resolved and inline_file_recursive is called on it.
InlineRecurse ==
    /\ AtStep("inline", "loop")
    /\ ~AllTaken(Top.i)
    /\ Len(stack) < MaxDepth
    /\ \E import_path \in {resolve_import_path(Top.imports[Top.i].path, Top.clean_path)} :
           IF import_path.ok
           THEN /\ stack' = Append(Append(Callers, [Top EXCEPT !.pc = "called"]),
                                   Frame("inline", import_path.path))
                /\ UNCHANGED ret
           ELSE Return(Err("no_parent", Top.clean_path))
    /\ UNCHANGED << fs, entry, pc, processed_files, file_contents,
                    inlined_files, reads, expanded, output, exit >>

\* The recursive call returned: the inlined text replaces the import, an
\* error is handed on by the ?.
InlineReplace ==
    /\ AtStep("inline", "called")
    /\ IF ret.ok
       THEN /\ stack' = Append(Callers,
                   [Top EXCEPT !.pc = "loop",
                               !.result = ReplaceImport(@, Top.imports[Top.i], ret.val),
                               !.i = NextTaken(@)])
            /\ UNCHANGED ret
       ELSE Return(ret)
    /\ UNCHANGED << fs, entry, pc, processed_files, file_contents,
                    inlined_files, reads, expanded, output, exit >>

(***************************************************************************)
(* The file trees and entry arguments the runs start from                  *)
(***************************************************************************)

\* The most import statements a generated tree holds, over all its files.
MaxImports == 2

\* The statements the generated files are made of: two bare paths of which
\* one is a prefix of the other, an import back to the entry file, an import
\* of a file that does not exist, and a quoted path ended by a line break.
Stmts == {"import a;", "import ab;", "import e;", "import m;", "import 'ab'\n"}

RECURSIVE Concat(_)
Concat(ss) == IF Len(ss) = 0 THEN "" ELSE Head(ss) \o Concat(Tail(ss))

\* The generated tree: /r/e, /r/a and /r/ab, each its own mark followed by
\* its statements.
GenTree(se, sa, sb) ==
    BaseDirs @@ ("/r/e" :> File("E;" \o Concat(se)))
             @@ ("/r/a" :> File("A;" \o Concat(sa)))
             @@ ("/r/ab" :> File("B;" \o Concat(sb)))

\* How many statements each of the three files gets, MaxImports at most in
\* all.
GenShapes ==
    {l \in (0..MaxImports) \X (0..MaxImports) \X (0..MaxImports) :
        l[1] + l[2] + l[3] <= MaxImports}

\* Scenario 1 of the specification.
TreeLib ==
    BaseDirs @@ ("/r/e" :> File("{ lib = import \"lib.nix\"; }"))
             @@ ("/r/lib.nix" :> File("{ x = 1; }"))

\* Scenario 2: the entry imports a and b, both import c.
TreeDiamond ==
    BaseDirs @@ ("/r/e" :> File("E;import a;import b;"))
             @@ ("/r/a" :> File("A;import c;"))
             @@ ("/r/b" :> File("B;import c;"))
             @@ ("/r/c" :> File("C;"))

\* One file under several spellings, and a cycle closed through another one.
TreeSpellings ==
    BaseDirs @@ ("/r/e" :> File("import ./d/../d/c;import d/c;import /r/./d/c;"))
             @@ ("/r/d/c" :> File("C;import ../e;import /r/d/../e;"))

\* Three imports with text around them.
TreeOrder ==
    BaseDirs @@ ("/r/e" :> File("x import a y import b z import c w"))
             @@ ("/r/a" :> File("A"))
             @@ ("/r/b" :> File("B"))
             @@ ("/r/c" :> File("C"))

\* An import of a directory.
TreeDirectory ==
    BaseDirs @@ ("/r/e" :> File("E;import d;"))

\* Lines, "import" without a path on its line, "import" inside a word.
TreeLines ==
    BaseDirs @@ ("/r/e" :> File("# import\nreimport  'a'\r\nx"))
             @@ ("/r/a" :> File("A\n"))

\* A relative import is anchored at the importing file: /r/d/c imports
\* /r/d/a, and /r/a is not reachable.
TreeAnchor ==
    BaseDirs @@ ("/r/e" :> File("E;import d/c;"))
             @@ ("/r/d/c" :> File("C;import a;"))
             @@ ("/r/d/a" :> File("DA;"))
             @@ ("/r/a" :> File("A;"))

\* Three imports, the second a prefix of the first.
TreeOverlap ==
    BaseDirs @@ ("/r/e" :> File("E;import ab;import a;import 'ab'\n"))
             @@ ("/r/a" :> File("A;"))
             @@ ("/r/ab" :> File("B;"))

\* One import written twice, before an import that is a prefix of it.
TreeDuplicate ==
    BaseDirs @@ ("/r/e" :> File("E;import ab;import ab;import a;"))
             @@ ("/r/a" :> File("A;"))
             @@ ("/r/ab" :> File("B;"))

\* A cycle through three files, the last of which also imports itself.
TreeRing ==
    BaseDirs @@ ("/r/e" :> File("E;import a;"))
             @@ ("/r/a" :> File("A;import b;"))
             @@ ("/r/b" :> File("B;import e;import b;"))

Fixtures == {TreeLib, TreeDiamond, TreeSpellings, TreeOrder, TreeDirectory,
             TreeLines, TreeAnchor, TreeOverlap, TreeDuplicate, TreeRing}

\* The entry argument: relative, with "." and "..", absolute, through a
\* directory that does not exist, and a file that does not exist.
Entries == {"e", "./d/../e", "/r/e", "q/../e", "m"}

\* The trees made of at most MaxImports statements, entered at /r/e.
GenInit ==
    /\ entry = "e"
    /\ \E l \in GenShapes :
          \E se \in [1..l[1] -> Stmts], sa \in [1..l[2] -> Stmts],
             sb \in [1..l[3] -> Stmts] :
              fs = GenTree(se, sa, sb)

FixtureInit ==
    /\ entry \in Entries
    /\ fs \in Fixtures

\* main has not started.
Start ==
    /\ pc = "main"
    /\ stack = << >>
    /\ ret = NoResult
    /\ processed_files = {}
    /\ file_contents = << >>
    /\ inlined_files = {}
    /\ reads = [p \in DOMAIN fs |-> 0]
    /\ expanded = [p \in DOMAIN fs |-> {}]
    /\ output = NoFile
    /\ exit = NoResult

Init == (GenInit \/ FixtureInit) /\ Start

Next ==
    \/ MainEntryMissing
    \/ MainBundle
    \/ BuildFailed
    \/ BuildDone
    \/ InlineDone
    \/ MainWrite
    \/ ValidateOk
    \/ ValidateFailed
    \/ ProcessSkip
    \/ ProcessNotFound
    \/ ProcessReadFailed
    \/ ProcessRecord
    \/ ProcessFinish
    \/ ProcessRecurse
    \/ ProcessNext
    \/ ProcessPropagate
    \/ InlineCycle
    \/ InlineBegin
    \/ InlineFinish
    \/ InlineRecurse
    \/ InlineReplace

Spec == Init /\ [][Next]_vars

\* The program is sequential and runs until main returns.
FairSpec == Init /\ [][Next]_vars /\ WF_vars(Next)

(***************************************************************************)
(* The notions the properties are stated with, defined on the file tree    *)
(* and not on what the program computed                                    *)
(***************************************************************************)

\* A file (not a directory) exists at p.
IsFile(p) == p \in DOMAIN fs /\ ~fs[p].is_dir

\* The identity of the entry point.
EntryKey == CleanAbsolute(entry)

\* The import directives of the file at F, in textual order.
ImportsIn(F) == IF IsFile(F) THEN parse_imports(fs[F].text) ELSE << >>

\* The identity an import path written in F denotes: the path itself when
\* absolute, else the path under the directory of F, cleaned either way.
TargetOf(F, import_path) ==
    IF IsAbsolute(import_path) THEN Clean(import_path)
    ELSE Clean(PathJoin(Parent(F).path, import_path))

Targets(F) == {TargetOf(F, ImportsIn(F)[i].path) : i \in 1..Len(ImportsIn(F))}

\* The identities reachable from those in frontier, seen included.
RECURSIVE ReachFrom(_, _)
ReachFrom(seen, frontier) ==
    IF frontier = {} THEN seen
    ELSE LET new == UNION {Targets(F) : F \in frontier} \ seen
         IN  ReachFrom(seen \cup new, new)

\* The entry and everything it imports, directly or not.
Reach(start) == ReachFrom({start}, {start})

\* Everything F imports, directly or not.
Below(F) == ReachFrom(Targets(F), Targets(F))

\* No file reachable from start imports itself, directly or not.
Acyclic(start) == \A F \in Reach(start) : F \notin Below(F)

\* The index in content of the first character of line number n (from 1).
RECURSIVE LineStart(_, _)
LineStart(content, n) ==
    IF n <= 1 THEN 1
    ELSE IndexOf(content, "\n", LineStart(content, n - 1)) + 1

\* The index in content of the first character of an import directive.
OffsetOf(content, import) ==
    LineStart(content, import.position[1]) + import.position[2]

\* content with the directives k, k-1, ..., 1 of imports replaced, each at
\* its own position, by texts[k].
RECURSIVE Splice(_, _, _, _)
Splice(content, imports, texts, k) ==
    IF k = 0 THEN content
    ELSE LET at == OffsetOf(content, imports[k])
             after == at + Len(imports[k].full_import)
         IN  Splice(SubSeq(content, 1, at - 1) \o texts[k] \o From(content, after),
                    imports, texts, k - 1)

\* The inlined text of F: nothing if F is being expanded (it is in active),
\* else the text of F with every directive replaced, at its position, by the
\* inlined text of its target.
RECURSIVE Expand(_, _)
Expand(F, active) ==
    IF F \in active \/ ~IsFile(F) THEN ""
    ELSE LET imports == ImportsIn(F)
             texts == [k \in 1..Len(imports) |->
                          Expand(TargetOf(F, imports[k].path), active \cup {F})]
         IN  Splice(fs[F].text, imports, texts, Len(imports))

\* process_nix_file has returned Ok for the entry point.
BuildSucceeded ==
    \/ pc = "build" /\ stack = << >> /\ ret.ok
    \/ pc \in {"inline", "write", "validate"}
    \/ pc = "done" /\ output.written

\* bundle_nix_files has returned Ok(text).
BundleSucceeded == pc \in {"write", "validate"} \/ (pc = "done" /\ output.written)
BundledText == ret.val

(***************************************************************************)
(* C1                                                                      *)
(***************************************************************************)

\* C1: whenever bundle_nix_files succeeds on a tree whose import graph is
\* acyclic, the returned text is the entry file's content with each import
\* directive replaced, at its own position, by the inlined text of its
\* target, and nothing else changed.
C1_OutputIsPositionalExpansion ==
    (BundleSucceeded /\ Acyclic(EntryKey)) => BundledText = Expand(EntryKey, {})

(***************************************************************************)
(* C2                                                                      *)
(***************************************************************************)

\* C2: whenever process_nix_file has returned Ok for the entry point, every
\* import of every key of file_contents, resolved relative to the file that
\* holds it and cleaned, is a key of file_contents.
C2_Closure ==
    BuildSucceeded =>
        \A F \in DOMAIN file_contents :
            \A i \in 1..Len(file_contents[F].imports) :
                TargetOf(F, file_contents[F].imports[i].path) \in DOMAIN file_contents

\* A finished run whose graph holds a file in a subdirectory that imports a
\* path relative to itself, and a file with two imports.
C2_Witness ==
    /\ pc = "done" /\ output.written
    /\ \E F \in DOMAIN file_contents :
          /\ Parent(F).path # Cwd
          /\ \E i \in 1..Len(file_contents[F].imports) :
                ~IsAbsolute(file_contents[F].imports[i].path)
    /\ Cardinality(DOMAIN file_contents) >= 3

(***************************************************************************)
(* C3                                                                      *)
(***************************************************************************)

\* C3: from the moment the build has succeeded to the end of the run, inlining
\* included, every identity reachable from the entry has been read exactly
\* once and no other path has been read.
C3_SingleRead ==
    BuildSucceeded =>
        \A p \in DOMAIN fs : reads[p] = IF p \in Reach(EntryKey) THEN 1 ELSE 0

\* The files of the graph that import p.
Importers(p) == {F \in DOMAIN file_contents : p \in Targets(F)}

\* A finished run in which one file is imported by two files and read once.
C3_Witness ==
    /\ pc = "done" /\ output.written
    /\ \E p \in DOMAIN file_contents :
          Cardinality(Importers(p)) >= 2 /\ reads[p] = 1

(***************************************************************************)
(* C4                                                                      *)
(***************************************************************************)

\* The calls of inline_file_recursive that have not returned.
InlineDepth == Cardinality({i \in 1..Len(stack) : stack[i].fn = "inline"})

\* C4: on every tree, cyclic ones included, the graph build returns and the
\* inlining returns, and inline_file_recursive is never nested deeper than
\* the number of files in the graph plus one.
C4_Termination ==
    /\ (pc = "build") ~> (pc # "build")
    /\ (pc = "inline") ~> (pc # "inline")
    /\ [](InlineDepth <= Cardinality(DOMAIN file_contents) + 1)

\* Inlining on a cycle of two files or more, nested as deep as it gets: every
\* file of the graph is being expanded and one more call has been made.
C4_Witness ==
    /\ pc = "inline"
    /\ Cardinality(DOMAIN file_contents) >= 2
    /\ InlineDepth = Cardinality(DOMAIN file_contents) + 1

(***************************************************************************)
(* C5                                                                      *)
(***************************************************************************)

\* The step a call of inline_file_recursive for a file of the graph starts
\* with: it returns "" at once and leaves the set alone exactly if the file
\* is in the set; otherwise it puts the file into the set.
CycleStep ==
    (AtStep("inline", "enter") /\ CleanAbsolute(Top.file_path) \in DOMAIN file_contents)
    => LET clean_path == CleanAbsolute(Top.file_path)
           ReturnsEmpty == /\ stack' = Callers
                           /\ ret' = Ok("")
                           /\ inlined_files' = inlined_files
       IN  /\ (clean_path \in inlined_files) <=> ReturnsEmpty
           /\ (clean_path \notin inlined_files) => (clean_path \in inlined_files')

\* The entry file holds one import, of itself.
SelfImport ==
    /\ Len(ImportsIn(EntryKey)) = 1
    /\ Targets(EntryKey) = {EntryKey}

\* The entry file holds one import, of another file, which holds one import,
\* of the entry file.
TwoCycle ==
    /\ Len(ImportsIn(EntryKey)) = 1
    /\ \E B \in Targets(EntryKey) :
          B # EntryKey /\ Len(ImportsIn(B)) = 1 /\ Targets(B) = {EntryKey}

\* The text the policy gives an entry file that imports itself, and one on a
\* cycle of two files.
SelfImportText == Splice(fs[EntryKey].text, ImportsIn(EntryKey), << "" >>, 1)

TwoCycleText ==
    LET B == CHOOSE B \in Targets(EntryKey) : TRUE
    IN  Splice(fs[EntryKey].text, ImportsIn(EntryKey),
               << Splice(fs[B].text, ImportsIn(B), << "" >>, 1) >>, 1)

CycleOutput ==
    /\ (BundleSucceeded /\ SelfImport) => BundledText = SelfImportText
    /\ (BundleSucceeded /\ TwoCycle) => BundledText = TwoCycleText

\* C5: a call of inline_file_recursive for a file of the graph returns the
\* empty string without expanding the file exactly if the file is in the
\* active set; so an entry that imports itself has that import replaced by
\* nothing, and with A importing B and B importing A the output for A is A's
\* content with its import replaced by B's content, B's import replaced by
\* nothing.
C5_CycleBreaking == [][CycleStep]_vars /\ []CycleOutput

\* A finished run on a cycle of two files, in which the call for the entry
\* file made from the other file returned the empty string.
C5_Witness ==
    /\ pc = "done" /\ output.written
    /\ TwoCycle
    /\ "" \in expanded[EntryKey]
    /\ output.text = TwoCycleText

(***************************************************************************)
(* C6                                                                      *)
(***************************************************************************)

C7_OrderPreserved ==
    (BundleSucceeded /\ Len(ImportsIn(EntryKey)) = 3) =>
        LET imports == ImportsIn(EntryKey)
            T(k) == TargetOf(EntryKey, imports[k].path)
        IN  \E t1 \in expanded[T(1)], t2 \in expanded[T(2)], t3 \in expanded[T(3)] :
                BundledText = Splice(fs[EntryKey].text, imports, << t1, t2, t3 >>, 3)

(***************************************************************************)
(* C8                                                                      *)
(***************************************************************************)

\* The inlining engine has not run: no call of it is pending, none returned.
NoInlining ==
    /\ pc \notin {"inline", "write", "validate"}
    /\ \A i \in 1..Len(stack) : stack[i].fn # "inline"
    /\ \A p \in DOMAIN expanded : expanded[p] = {}

\* The error main exits with names a path that is reachable from the entry
\* and is no readable file, or the entry as it was written.
NamesOffendingPath ==
    /\ ~exit.ok
    /\ \/ /\ exit.kind = "entry_not_exist"
          /\ exit.path = entry
          /\ ~OsExists(entry)
       \/ /\ exit.kind = "not_exist"
          /\ ~Exists(exit.path)
          /\ exit.path \in Reach(EntryKey)
       \/ /\ exit.kind = "read_failed"
          /\ Exists(exit.path) /\ fs[exit.path].is_dir
          /\ exit.path \in Reach(EntryKey)

\* Some path reachable from the entry is not a readable file.
Broken == \E p \in Reach(EntryKey) : ~IsFile(p)

\* C8: when a path reachable from the entry does not exist or cannot be
\* read, the run ends with an error naming such a path, no call of
\* inline_file_recursive is ever made, and the output file is never written;
\* fs::write is reached only with the Ok value of bundle_nix_files.
C8_AllOrNothing ==
    /\ pc = "write" => (ret.ok /\ stack = << >>)
    /\ output.written => (ret.ok /\ output.text = ret.val)
    /\ \/ /\ ~output.written
          /\ NoInlining
          /\ pc # "done" \/ NamesOffendingPath
       \/ ~Broken

\* A run that ended on a missing file two imports away from the entry, with
\* part of the graph already stored.
C8_Witness ==
    /\ pc = "done"
    /\ OsExists(entry)
    /\ exit.kind = "not_exist"
    /\ exit.path \notin Targets(EntryKey) \cup {EntryKey}
    /\ Cardinality(DOMAIN file_contents) >= 2
    /\ ~output.written

(***************************************************************************)
(* C9                                                                      *)
(***************************************************************************)

\* C9: after a successful build the keys of file_contents are the identity
\* of the entry file and the identities of the files it imports, directly or
\* not, and no other.
C9_ExactReachability == BuildSucceeded => DOMAIN file_contents = Reach(EntryKey)

\* A finished run on a tree that holds a file the entry does not reach,
\* beside three that it does.
C9_Witness ==
    /\ pc = "done" /\ output.written
    /\ fs = TreeAnchor
    /\ DOMAIN file_contents = {"/r/e", "/r/d/c", "/r/d/a"}
    /\ IsFile("/r/a")

(***************************************************************************)
(* C10                                                                     *)
(***************************************************************************)

\* p is absolute and holds no empty, "." or ".." element.
NormalForm(p) ==
    /\ IsAbsolute(p)
    /\ p = "/" \/ \A i \in 2..Len(Split(p)) : Split(p)[i] \notin {"", ".", ".."}

\* Other spellings of path p that denote the same lexical location: behind
\* "./", behind a directory entered and left again, with its first
\* directory entered, left and entered again, with "/." at its end, and for
\* an absolute path with its first "/" doubled.
Respellings(p) ==
    LET es == Split(p)
    IN  IF IsAbsolute(p)
        THEN {"/." \o p, "/x/.." \o p, p \o "/.", "/" \o p}
             \cup (IF Len(es) >= 2 /\ es[2] \notin {"", ".", ".."}
                   THEN {"/" \o es[2] \o "/.." \o p}
                   ELSE {})
        ELSE {"./" \o p, "x/../" \o p, p \o "/."}
             \cup (IF es[1] \notin {"", ".", ".."}
                   THEN {"./" \o es[1] \o "/../" \o p}
                   ELSE {})

\* The key process_nix_file and inline_file_recursive use for import_path
\* written in current_file.
KeyOf(import_path, current_file) ==
    CleanAbsolute(resolve_import_path(import_path, current_file).path)

\* The keys of the inline_file_recursive calls that are being expanded.
ActiveKeys == {i \in 1..Len(stack) : stack[i].fn = "inline" /\ stack[i].pc # "enter"}

\* C10: every key of file_contents, processed_files and inlined_files is in
\* normal form and cleaning it again leaves it as it is; an import path
\* and each of its other spellings, written in the same file, give the same
\* key, as do the entry path and its other spellings; every key is an
\* existing file stored once with its own text, read once, and active at
\* most once at a time.
C10_PathIdentity ==
    /\ \A k \in DOMAIN file_contents \cup processed_files \cup inlined_files :
          /\ NormalForm(k)
          /\ Clean(k) = k
          /\ CleanAbsolute(k) = k
    /\ \A r \in Respellings(entry) : CleanAbsolute(r) = EntryKey
    /\ Clean(Clean(entry)) = Clean(entry)
    /\ \A F \in DOMAIN file_contents :
          /\ IsFile(F)
          /\ file_contents[F].path = F
          /\ file_contents[F].content = fs[F].text
          /\ reads[F] = 1
          /\ \A i \in 1..Len(file_contents[F].imports) :
                LET import_path == file_contents[F].imports[i].path
                IN  /\ Clean(Clean(import_path)) = Clean(import_path)
                    /\ \A r \in Respellings(import_path) :
                          KeyOf(r, F) = KeyOf(import_path, F)
    /\ \A i, j \in ActiveKeys :
          /\ CleanAbsolute(stack[i].file_path) \in inlined_files
          /\ i # j => CleanAbsolute(stack[i].file_path) # CleanAbsolute(stack[j].file_path)

\* A finished run from an entry spelled "./d/../e" whose file imports one
\* file under three spellings, that file importing the entry under two: two
\* nodes, each read once, and the imports of the entry expanded to nothing.
C10_Witness ==
    /\ pc = "done" /\ output.written
    /\ fs = TreeSpellings
    /\ entry = "./d/../e"
    /\ DOMAIN file_contents = {"/r/e", "/r/d/c"}
    /\ reads["/r/e"] = 1 /\ reads["/r/d/c"] = 1
    /\ expanded["/r/e"] = {"", output.text}
    /\ expanded["/r/d/c"] = {"C;;;"}

(***************************************************************************)
(* C11                                                                     *)
(***************************************************************************)

\* The process_nix_file calls that are in their loop over the imports.
InLoop == {i \in 1..Len(stack) : stack[i].fn = "process" /\ stack[i].pc # "enter"}

\* Every file whose imports are being recursed into is stored and marked.
RecordedBeforeRecursion ==
    \A i \in InLoop :
        /\ stack[i].clean_path \in DOMAIN file_contents
        /\ stack[i].clean_path \in processed_files
        /\ reads[stack[i].clean_path] = 1

\* The step a call of process_nix_file for a stored file takes: it returns
\* Ok at once, nothing is read and nothing is stored.
ReentryStep ==
    (AtStep("process", "enter") /\ CleanAbsolute(Top.file_path) \in DOMAIN file_contents)
    => /\ stack' = Callers
       /\ ret' = Ok("")
       /\ reads' = reads
       /\ file_contents' = file_contents
       /\ processed_files' = processed_files

\* C11: while process_nix_file recurses into the imports of a file F, F is a
\* key of file_contents and in processed_files, and a call made for a file
\* that is already stored returns at once without a read or an insert.
C11_MarkBeforeRecurse == []RecordedBeforeRecursion /\ [][ReentryStep]_vars

\* A call for a file whose own call is still in its loop, further down the
\* stack: a cycle comes back to it.
C11_Witness ==
    /\ AtStep("process", "enter")
    /\ \E i \in InLoop :
          /\ stack[i].clean_path = CleanAbsolute(Top.file_path)
          /\ reads[stack[i].clean_path] = 1
          /\ i < Len(stack) - 1

(***************************************************************************)
(* C12                                                                     *)
(***************************************************************************)

\* The errors of a key that is not in file_contents: the check of
\* bundle_nix_files and the lookup of inline_file_recursive.
MissingNode == {"entry_content_missing", "no_file_info"}

\* C12: once the build has succeeded the entry's key is in file_contents,
\* every call of inline_file_recursive, for the entry or for an import,
\* looks up a key that is in file_contents, and no call and no run ends with
\* the error of a missing key.
C12_MissingNodeUnreachable ==
    /\ ret.kind \notin MissingNode
    /\ exit.kind \notin MissingNode
    /\ (pc = "build" /\ stack = << >> /\ ret.ok) => EntryKey \in DOMAIN file_contents
    /\ \A i \in 1..Len(stack) :
          (stack[i].fn = "inline" /\ stack[i].pc = "enter")
          => InlineKey(stack[i].file_path) \in DOMAIN file_contents

\* A call of inline_file_recursive made for an import whose path is not
\* written as its key is, about to find the key.
C12_Witness ==
    /\ pc = "inline"
    /\ Len(stack) >= 2
    /\ AtStep("inline", "enter")
    /\ Top.file_path # InlineKey(Top.file_path)
    /\ InlineKey(Top.file_path) \in DOMAIN file_contents

(***************************************************************************)
(* C13                                                                     *)
(***************************************************************************)

\* What a step may do to file_contents: keep every key with its NixFile, add
\* at most one key, and only one that was never read before and is read in
\* this step; no readable file that is a key is read again; and from the
\* start of inline_imports on, nothing at all.
GraphStep ==
    /\ \A k \in DOMAIN file_contents :
          k \in DOMAIN file_contents' /\ file_contents'[k] = file_contents[k]
    /\ Cardinality(DOMAIN file_contents' \ DOMAIN file_contents) <= 1
    /\ \A k \in DOMAIN file_contents' \ DOMAIN file_contents :
          reads[k] = 0 /\ reads'[k] = 1
    /\ \A k \in DOMAIN file_contents : reads'[k] = reads[k]
    /\ pc \in {"inline", "write", "validate", "done"} => file_contents' = file_contents

\* C13: a key is inserted into file_contents at most once, with the file's
\* one read, its NixFile is never replaced or removed afterwards, and no
\* step of the inlining phase or after it changes file_contents.
C13_GraphImmutable == [][GraphStep]_vars

\* A finished run over three files or more: file_contents still holds, for
\* each, the text and the imports of the file as read.
C13_Witness ==
    /\ pc = "done" /\ output.written
    /\ Cardinality(DOMAIN file_contents) >= 3
    /\ \A k \in DOMAIN file_contents :
          /\ file_contents[k].content = fs[k].text
          /\ file_contents[k].imports = parse_imports(fs[k].text)
    /\ \E k \in DOMAIN file_contents : Cardinality(expanded[k]) >= 2

(***************************************************************************)
(* C14                                                                     *)
(***************************************************************************)

\* Some import directive is written twice or more in the file at F.
HasDuplicate(F) ==
    \E i, j \in 1..Len(ImportsIn(F)) :
        i < j /\ ImportsIn(F)[i].full_import = ImportsIn(F)[j].full_import

\* C14: when the entry file holds an import directive twice or more, the
\* output is its content with each directive replaced by a text returned
\* for its target, the same text at every occurrence of the same directive,
\* so that none of the directives written in the file is left.
C14_DuplicateLiterals ==
    (BundleSucceeded /\ HasDuplicate(EntryKey)) =>
        LET imports == ImportsIn(EntryKey)
            n == Len(imports)
            T(k) == TargetOf(EntryKey, imports[k].path)
            Texts == UNION {expanded[T(k)] : k \in 1..n}
        IN  \E t \in [1..n -> Texts] :
                /\ \A k \in 1..n : t[k] \in expanded[T(k)]
                /\ \A i, j \in 1..n :
                      imports[i].full_import = imports[j].full_import => t[i] = t[j]
                /\ BundledText = Splice(fs[EntryKey].text, imports, t, n)

(***************************************************************************)
(* C15                                                                     *)
(***************************************************************************)

\* The identities of the calls among the first n frames that have passed
\* the cycle check.
ActiveIn(n) ==
    {stack[i].clean_path : i \in {j \in 1..n : stack[j].fn = "inline" /\ stack[j].pc # "enter"}}

\* inlined_files is the set of the identities of the calls on the stack that
\* have passed the cycle check, each there once; it is empty once the
\* top-level call has returned Ok.
ActiveSetIsPath ==
    /\ pc = "inline" => inlined_files = ActiveIn(Len(stack))
    /\ pc = "inline" => Cardinality(inlined_files) = Cardinality(ActiveKeys)
    /\ (pc = "inline" /\ stack = << >> /\ ret.ok) => inlined_files = {}
    /\ pc \in {"write", "validate"} => inlined_files = {}

\* A call of inline_file_recursive returns Ok: inlined_files is then what it
\* was when the call was made, the identities of the calls below it.
InlineReturnStep ==
    (Len(stack) > 0 /\ Top.fn = "inline" /\ stack' = Callers /\ ret'.ok)
    => /\ inlined_files' = ActiveIn(Len(stack) - 1)
       /\ inlined_files' = inlined_files \ (IF Top.pc = "enter" THEN {} ELSE {Top.clean_path})
       /\ Top.pc = "enter" => inlined_files' = inlined_files

\* C15: during the inlining inlined_files is exactly the set of identities
\* of the inline_file_recursive calls on the recursion path that have passed
\* the cycle check; a call that returns Ok, the early return of the empty
\* string included, leaves the set as it was when the call was made; after
\* a successful top-level call the set is empty.
C15_ActiveSetDiscipline == []ActiveSetIsPath /\ [][InlineReturnStep]_vars

\* A nested call has returned Ok to a caller that is itself nested: the two
\* callers are still marked, the file that returned is not.
C15_Witness ==
    /\ AtStep("inline", "called")
    /\ ret.ok /\ ret.val # ""
    /\ Len(stack) = 2
    /\ inlined_files = {stack[1].clean_path, stack[2].clean_path}
    /\ Cardinality(inlined_files) = 2
    /\ \E p \in DOMAIN expanded : ret.val \in expanded[p] /\ p \notin inlined_files

(***************************************************************************)
(* C16                                                                     *)
(***************************************************************************)

\* processed_files holds the keys of file_contents and no other path.
ProcessedAreKeys == processed_files = DOMAIN file_contents

\* No step of the build takes a path out of either set.
GrowStep ==
    pc = "build" =>
        /\ processed_files \subseteq processed_files'
        /\ DOMAIN file_contents \subseteq DOMAIN file_contents'

\* C16: at every call of and return from process_nix_file, whether it
\* returns Ok or Err, processed_files is the key set of file_contents, and
\* during the build both sets only grow.
C16_ProcessedEqualsKeys == []ProcessedAreKeys /\ [][GrowStep]_vars

\* A build that failed on its second file or later: what was stored before
\* the error is still the set of processed files.
C16_Witness ==
    /\ pc = "build" /\ stack = << >>
    /\ ~ret.ok
    /\ processed_files # {}
    /\ processed_files = DOMAIN file_contents
    /\ ret.path \notin processed_files

====
